---- MODULE Spec2Model ----
(***************************************************************************)
(* A model of the two database inspection scripts of project-karl:         *)
(*   script "A" : src/check_database.py                                    *)
(*   script "B" : src/karl-example-desktop/check_database.py               *)
(* Each run is a straight-line program over a SQLite file.  The file       *)
(* system, the catalog and the rows are the inputs; the printed lines, the *)
(* connection and the exit status are the outputs.                         *)
(***************************************************************************)
EXTENDS Integers, Sequences, FiniteSets

VARIABLES
    script,      \* "A" or "B": which of the two scripts is running
    fileExists,  \* whether karl_database.db exists in the working directory
    created,     \* whether this run's sqlite3.connect created the file
    db,          \* the catalog: tables in sqlite_master order, with their rows
    fault,       \* the one query (if any) the engine fails for an outside reason
    tieOrder,    \* how the engine orders rows that tie under an ORDER BY
    pc,          \* position of the run in its script
    conn,        \* "none", "open" or "closed"
    opens,       \* how many times sqlite3.connect was executed
    closes,      \* how many times conn.close() was executed
    out,         \* the lines printed so far
    raised,      \* the sections in which an exception was raised
    exitCode     \* -1 while running, then the process's exit status

vars == <<script, fileExists, created, db, fault, tieOrder, pc, conn, opens, closes,
          out, raised, exitCode>>

-----------------------------------------------------------------------------
(* Bounds of the inputs.                                                   *)

MaxRows == 2
MaxRecentRows == 6
HeadTypes == 3
MaxCount == 3
NumTypes == 11

(* Program constants.                                                      *)

TypeLimit == 10
RecentLimit == 5
LatestLimit == 5
PreviewBytes == 32
MillisPerSecond == 1000

-----------------------------------------------------------------------------
(* The database as the scripts see it.                                     *)

Col(n, t) == [name |-> n, type |-> t]

ColNames(t) == {t.cols[i].name : i \in 1..Len(t.cols)}

HasTable(d, n) == \E i \in 1..Len(d) : d[i].name = n

TableOf(d, n) == d[CHOOSE i \in 1..Len(d) : d[i].name = n]

HasCols(t, names) == names \subseteq ColNames(t)

\* Table names that do not read as one identifier when pasted unquoted into
\* a statement: "my table" is two tokens, "order" is a keyword.
NeedsQuoting == {"my table", "order"}

Min(a, b) == IF a <= b THEN a ELSE b

Take(s, n) == SubSeq(s, 1, Min(n, Len(s)))

RECURSIVE Flatten(_)
Flatten(ss) == IF ss = <<>> THEN <<>> ELSE Head(ss) \o Flatten(Tail(ss))

\* A printed line: the section it belongs to, what it is, and its fields.
Line(s, k, v) == [sec |-> s, kind |-> k, val |-> v]

\* The outcome of a try block: the lines printed inside it and whether an
\* exception left it (with the exception's message).
Done(ls) == [lines |-> ls, exc |-> FALSE, msg |-> ""]
Raise(ls, m) == [lines |-> ls, exc |-> TRUE, msg |-> m]

-----------------------------------------------------------------------------
(* The engine's answers to the statements the scripts execute.             *)

\* SELECT name FROM sqlite_master WHERE type='table'
CatalogNames(d) == [i \in 1..Len(d) |-> d[i].name]

\* PRAGMA table_info(<name>): one (name, declared type) per column, in
\* declaration order.
TableInfo(t) == [i \in 1..Len(t.cols) |-> <<t.cols[i].name, t.cols[i].type>>]

\* SQL leaves the order of rows that tie under an ORDER BY to the engine:
\* "first" keeps them in the order they were produced, "last" reverses it.
TieOrders == {"first", "last"}

\* Row numbers of rows, ordered as ORDER BY timestamp DESC orders them: a row
\* is placed after every row already placed whose timestamp is greater, and
\* after or before those with an equal timestamp as the engine orders ties.
RECURSIVE InsertByTimestampDesc(_, _, _, _)
InsertByTimestampDesc(rows, i, s, ties) ==
    IF s = <<>> THEN <<i>>
    ELSE IF \/ rows[Head(s)].timestamp > rows[i].timestamp
            \/ (rows[Head(s)].timestamp = rows[i].timestamp /\ ties = "first")
         THEN <<Head(s)>> \o InsertByTimestampDesc(rows, i, Tail(s), ties)
         ELSE <<i>> \o s

RECURSIVE OrderByTimestampDescUpTo(_, _, _)
OrderByTimestampDescUpTo(rows, n, ties) ==
    IF n = 0 THEN <<>>
    ELSE InsertByTimestampDesc(rows, n, OrderByTimestampDescUpTo(rows, n - 1, ties), ties)

\* The statement without its ORDER BY: the rows in table order.
OrderByRowid(rows, ties) == [i \in 1..Len(rows) |-> i]

OrderByTimestampDesc(rows, ties) == OrderByTimestampDescUpTo(rows, Len(rows), ties)

\* ... ORDER BY timestamp DESC LIMIT 5 (script A), as row numbers.
RecentIdx(rows, ties) == Take(OrderByTimestampDesc(rows, ties), RecentLimit)

\* datetime(timestamp/1000, 'unixepoch'): the whole seconds of the epoch
\* milliseconds; the calendar rendering of the seconds is one to one.
FormattedTime(ms) == ms \div MillisPerSecond

\* SELECT type, user_id, datetime(timestamp/1000,'unixepoch') ... LIMIT 5
RecentQuery(rows, ties) ==
    LET idx == RecentIdx(rows, ties)
    IN  [k \in 1..Len(idx) |-> <<rows[idx[k]].type, rows[idx[k]].user_id,
                                 FormattedTime(rows[idx[k]].timestamp)>>]

\* ... ORDER BY timestamp DESC LIMIT 5 (script B), as row numbers.
LatestIdx(rows, ties) == Take(OrderByTimestampDesc(rows, ties), LatestLimit)

\* SELECT type, details, timestamp ... ORDER BY timestamp DESC LIMIT 5
LatestQuery(rows, ties) ==
    LET idx == LatestIdx(rows, ties)
    IN  [k \in 1..Len(idx) |-> <<rows[idx[k]].type, rows[idx[k]].details,
                                 rows[idx[k]].timestamp>>]

RECURSIVE Ascending(_)
Ascending(S) ==
    IF S = {} THEN <<>>
    ELSE LET m == CHOOSE x \in S : \A y \in S : x <= y
         IN  <<m>> \o Ascending(S \ {m})

CountOfType(rows, ty) == Cardinality({i \in 1..Len(rows) : rows[i].type = ty})

\* SELECT type, COUNT(*) ... GROUP BY type: one group per type, in key order.
GroupByType(rows) ==
    LET keys == Ascending({rows[i].type : i \in 1..Len(rows)})
    IN  [k \in 1..Len(keys) |-> <<keys[k], CountOfType(rows, keys[k])>>]

\* The statement without its ORDER BY: the groups in the grouping's order.
GroupingOrder(gs, ties) == gs

\* ORDER BY count DESC over the groups; tied groups as the engine orders ties.
RECURSIVE InsertByCountDesc(_, _, _)
InsertByCountDesc(g, s, ties) ==
    IF s = <<>> THEN <<g>>
    ELSE IF Head(s)[2] > g[2] \/ (Head(s)[2] = g[2] /\ ties = "first")
         THEN <<Head(s)>> \o InsertByCountDesc(g, Tail(s), ties)
         ELSE <<g>> \o s

RECURSIVE OrderByCountDesc(_, _)
OrderByCountDesc(gs, ties) ==
    IF gs = <<>> THEN <<>>
    ELSE InsertByCountDesc(gs[Len(gs)],
                           OrderByCountDesc(SubSeq(gs, 1, Len(gs) - 1), ties), ties)

\* SELECT type, COUNT(*) as count ... GROUP BY type ORDER BY count DESC LIMIT 10
TypesQuery(rows, ties) == Take(OrderByCountDesc(GroupByType(rows), ties), TypeLimit)

\* SELECT user_id, type, COUNT(*) ... GROUP BY user_id, type: one group per
\* (user, type) pair, in key order.
RECURSIVE AscendingPairs(_)
AscendingPairs(S) ==
    IF S = {} THEN <<>>
    ELSE LET m == CHOOSE x \in S : \A y \in S :
                      x[1] < y[1] \/ (x[1] = y[1] /\ x[2] <= y[2])
         IN  <<m>> \o AscendingPairs(S \ {m})

GroupByUserType(rows) ==
    LET keys == AscendingPairs({<<rows[i].user_id, rows[i].type>> : i \in 1..Len(rows)})
    IN  [k \in 1..Len(keys) |->
            <<keys[k][1], keys[k][2],
              Cardinality({i \in 1..Len(rows) :
                  rows[i].user_id = keys[k][1] /\ rows[i].type = keys[k][2]})>>]

-----------------------------------------------------------------------------
(* Script A, src/check_database.py: the three try blocks.                  *)

\* for state in states: three prints per row.
StateLines(rows) ==
    Flatten([i \in 1..Len(rows) |->
        << Line(1, "state_user", <<rows[i].user_id>>),
           Line(1, "state_size", <<rows[i].state_len>>),
           Line(1, "state_version", <<rows[i].version>>) >>])

\* The try block of section 1.
A_ContainerStatesTry(d, f) ==
    IF f = "A1cat" THEN Raise(<<>>, "engine")
    ELSE IF ~HasTable(d, "container_states")
    THEN Done(<<Line(1, "notfound", <<>>)>>)
    ELSE LET t == TableOf(d, "container_states") IN
         IF f = "A1sel" THEN Raise(<<>>, "engine")
         ELSE IF ~HasCols(t, {"user_id", "state_data", "version"})
         THEN Raise(<<>>, "no such column")
         ELSE IF t.rows # <<>> THEN Done(StateLines(t.rows))
         ELSE Done(<<Line(1, "nodata", <<>>)>>)

TypeLines(types) ==
    IF types # <<>>
    THEN <<Line(2, "types_heading", <<>>)>>
         \o [k \in 1..Len(types) |-> Line(2, "type_entry", types[k])]
    ELSE <<>>

RecentLines(recent) ==
    IF recent # <<>>
    THEN <<Line(2, "recent_heading", <<>>)>>
         \o [k \in 1..Len(recent) |-> Line(2, "recent_entry", recent[k])]
    ELSE <<>>

\* The try block of section 2: what is printed before a failing statement
\* stays printed.
A_InteractionDataTry(d, f, ties) ==
    IF f = "A2cat" THEN Raise(<<>>, "engine")
    ELSE IF ~HasTable(d, "interaction_data")
    THEN Done(<<Line(2, "notfound", <<>>)>>)
    ELSE LET t == TableOf(d, "interaction_data")
             total == <<Line(2, "total", <<Len(t.rows)>>)>>
         IN
         IF f = "A2count" THEN Raise(<<>>, "engine")
         ELSE IF f = "A2types" THEN Raise(total, "engine")
         ELSE IF ~HasCols(t, {"type"}) THEN Raise(total, "no such column")
         ELSE LET types == TypeLines(TypesQuery(t.rows, ties)) IN
              IF f = "A2recent" THEN Raise(total \o types, "engine")
              ELSE IF ~HasCols(t, {"type", "user_id", "timestamp"})
              THEN Raise(total \o types, "no such column")
              ELSE Done(total \o types \o RecentLines(RecentQuery(t.rows, ties)))

ColumnLines(info) == [k \in 1..Len(info) |-> Line(3, "column", info[k])]

\* for table in tables: the entry is printed, then PRAGMA table_info is
\* executed with the name pasted into the statement, then one line per column.
RECURSIVE SchemaLoop(_, _, _, _)
SchemaLoop(d, f, i, printed) ==
    IF i > Len(d) THEN Done(printed)
    ELSE LET entry == printed \o <<Line(3, "table_entry", <<d[i].name>>)>> IN
         IF f = "A3pragma" THEN Raise(entry, "engine")
         ELSE IF d[i].name \in NeedsQuoting THEN Raise(entry, "syntax error")
         ELSE SchemaLoop(d, f, i + 1, entry \o ColumnLines(TableInfo(d[i])))

\* The try block of section 3.
A_SchemasTry(d, f) ==
    IF f = "A3cat" THEN Raise(<<>>, "engine")
    ELSE SchemaLoop(d, f, 1, <<>>)

\* except Exception as e: print(f"  Error checking ...: {e}")
Caught(sec, r) ==
    IF r.exc THEN r.lines \o <<Line(sec, "error", <<r.msg>>)>> ELSE r.lines

Heading(sec) == <<Line(sec, "heading", <<>>), Line(sec, "rule", <<>>)>>

-----------------------------------------------------------------------------
(* Script B, src/karl-example-desktop/check_database.py: the statements of *)
(* the one try block, cut at its section headings.                         *)

\* Lines 11-16: the header, the catalog query, the list of table names.
B_StructureTry(d, f) ==
    LET header == <<Line(0, "header", <<>>)>> IN
    IF f = "B_cat" THEN Raise(header, "engine")
    ELSE Done(header \o <<Line(0, "tables", CatalogNames(d))>>)

\* data[:32] if data else 'None'
Preview(len) == IF len > 0 THEN Min(PreviewBytes, len) ELSE 0

\* Lines 19-34.
B_ContainerStatesTry(d, f) ==
    LET heading == <<Line(1, "heading", <<>>)>> IN
    IF f = "B_states" THEN Raise(heading, "engine")
    ELSE IF ~HasTable(d, "container_states") THEN Raise(heading, "no such table")
    ELSE LET t == TableOf(d, "container_states") IN
         IF ~HasCols(t, {"user_id", "state_data", "version", "created_at", "updated_at"})
         THEN Raise(heading, "no such column")
         ELSE IF t.rows # <<>>
         THEN LET states == heading \o
                      [i \in 1..Len(t.rows) |->
                          Line(1, "state", <<t.rows[i].user_id, t.rows[i].state_len,
                                             t.rows[i].version>>)]
              IN  IF f = "B_preview" THEN Raise(states, "engine")
                  ELSE Done(states \o
                         <<Line(1, "preview", <<Preview(t.rows[1].state_len)>>)>>)
         ELSE Done(heading \o <<Line(1, "nodata", <<>>)>>)

\* Lines 37-52.
B_InteractionDataTry(d, f, ties) ==
    LET heading == <<Line(2, "heading", <<>>)>> IN
    IF f = "B_group" THEN Raise(heading, "engine")
    ELSE IF ~HasTable(d, "interaction_data") THEN Raise(heading, "no such table")
    ELSE LET t == TableOf(d, "interaction_data") IN
         IF ~HasCols(t, {"user_id", "type"}) THEN Raise(heading, "no such column")
         ELSE LET interactions == GroupByUserType(t.rows) IN
              IF interactions # <<>>
              THEN LET groups == heading \o
                           [k \in 1..Len(interactions) |->
                               Line(2, "group", interactions[k])]
                           \o <<Line(2, "latest_heading", <<>>)>>
                   IN  IF f = "B_latest" THEN Raise(groups, "engine")
                       ELSE IF ~HasCols(t, {"type", "details", "timestamp"})
                       THEN Raise(groups, "no such column")
                       ELSE LET latest == LatestQuery(t.rows, ties) IN
                            Done(groups \o [k \in 1..Len(latest) |->
                                               Line(2, "latest_entry", latest[k])])
              ELSE Done(heading \o <<Line(2, "nodata", <<>>)>>)

-----------------------------------------------------------------------------
(* The steps of a run.                                                     *)

\* sqlite3.connect(path): opens the file, creating an empty database when
\* no file is there.
Connect ==
    /\ conn' = "open"
    /\ opens' = opens + 1
    /\ UNCHANGED closes
    /\ IF fileExists
       THEN UNCHANGED <<fileExists, created, db>>
       ELSE /\ fileExists' = TRUE
            /\ created' = TRUE
            /\ db' = <<>>

\* conn.close()
Close ==
    /\ conn' = "closed"
    /\ closes' = closes + 1
    /\ UNCHANGED opens

\* Script A, lines 9-11.
A_PreFlight ==
    /\ pc = "a_pre"
    /\ IF ~fileExists
       THEN /\ out' = out \o <<Line(0, "diag", <<>>)>>
            /\ exitCode' = 1
            /\ pc' = "done"
       ELSE /\ pc' = "a_header"
            /\ UNCHANGED <<out, exitCode>>
    /\ UNCHANGED <<script, fileExists, created, db, fault, tieOrder, conn, opens, closes, raised>>

\* Script A, lines 13-14.
A_Header ==
    /\ pc = "a_header"
    /\ out' = out \o <<Line(0, "header", <<>>), Line(0, "rule", <<>>)>>
    /\ pc' = "a_connect"
    /\ UNCHANGED <<script, fileExists, created, db, fault, tieOrder, conn, opens, closes,
                   raised, exitCode>>

\* Script A, lines 17-18.
A_Connect ==
    /\ pc = "a_connect"
    /\ Connect
    /\ pc' = "a_s1"
    /\ UNCHANGED <<script, fault, tieOrder, out, raised, exitCode>>

\* A section of script A without its except clause: an exception ends the run
\* with a traceback and status 1.
A_SectionUncaught(sec, r, next) ==
    /\ out' = out \o Heading(sec) \o r.lines
    /\ raised' = IF r.exc THEN raised \cup {sec} ELSE raised
    /\ pc' = IF r.exc THEN "done" ELSE next
    /\ exitCode' = IF r.exc THEN 1 ELSE exitCode
    /\ UNCHANGED <<script, fileExists, created, db, fault, tieOrder, conn, opens, closes>>

\* A section of script A: its heading, its try block, its except clause.
A_Section(sec, r, next) ==
    /\ out' = out \o Heading(sec) \o Caught(sec, r)
    /\ raised' = IF r.exc THEN raised \cup {sec} ELSE raised
    /\ pc' = next
    /\ UNCHANGED <<script, fileExists, created, db, fault, tieOrder, conn, opens, closes,
                   exitCode>>

\* Script A, lines 21-38.
A_ContainerStates ==
    /\ pc = "a_s1"
    /\ A_Section(1, A_ContainerStatesTry(db, fault), "a_s2")

\* Script A, lines 41-80.
A_InteractionData ==
    /\ pc = "a_s2"
    /\ A_Section(2, A_InteractionDataTry(db, fault, tieOrder), "a_s3")

\* Script A, lines 83-96.
A_Schemas ==
    /\ pc = "a_s3"
    /\ A_Section(3, A_SchemasTry(db, fault), "a_close")

\* Script A, lines 98-99; the interpreter then exits with status 0.
A_Close ==
    /\ pc = "a_close"
    /\ Close
    /\ out' = out \o <<Line(4, "complete", <<>>)>>
    /\ exitCode' = 0
    /\ pc' = "done"
    /\ UNCHANGED <<script, fileExists, created, db, fault, tieOrder, raised>>

\* Script B, lines 8-9.
B_Connect ==
    /\ pc = "b_connect"
    /\ Connect
    /\ pc' = "b_structure"
    /\ UNCHANGED <<script, fault, tieOrder, out, raised, exitCode>>

\* A stretch of script B's try block: control goes on to the next statement,
\* or to the except clause when a statement raised.
B_Stretch(sec, r, next) ==
    /\ out' = out \o r.lines
    /\ raised' = IF r.exc THEN raised \cup {sec} ELSE raised
    /\ pc' = IF r.exc THEN "b_except" ELSE next
    /\ UNCHANGED <<script, fileExists, created, db, fault, tieOrder, conn, opens, closes,
                   exitCode>>

\* Script B, lines 11-16.
B_Structure ==
    /\ pc = "b_structure"
    /\ B_Stretch(0, B_StructureTry(db, fault), "b_states")

\* Script B, lines 19-34.
B_ContainerStates ==
    /\ pc = "b_states"
    /\ B_Stretch(1, B_ContainerStatesTry(db, fault), "b_interactions")

\* Script B, lines 37-52.
B_InteractionData ==
    /\ pc = "b_interactions"
    /\ B_Stretch(2, B_InteractionDataTry(db, fault, tieOrder), "b_close")

\* Script B, line 54; check_database() returns and the interpreter exits
\* with status 0.
B_Close ==
    /\ pc = "b_close"
    /\ Close
    /\ exitCode' = 0
    /\ pc' = "done"
    /\ UNCHANGED <<script, fileExists, created, db, fault, tieOrder, out, raised>>

\* Script B, lines 56-57: the one except clause; conn.close() is not in it.
B_Except ==
    /\ pc = "b_except"
    /\ out' = out \o <<Line(CHOOSE s \in raised : TRUE, "error", <<"exception">>)>>
    /\ exitCode' = 0
    /\ pc' = "done"
    /\ UNCHANGED <<script, fileExists, created, db, fault, tieOrder, conn, opens, closes,
                   raised>>

Next ==
    \/ A_PreFlight
    \/ A_Header
    \/ A_Connect
    \/ A_ContainerStates
    \/ A_InteractionData
    \/ A_Schemas
    \/ A_Close
    \/ B_Connect
    \/ B_Structure
    \/ B_ContainerStates
    \/ B_InteractionData
    \/ B_Close
    \/ B_Except

-----------------------------------------------------------------------------
(* The inputs: what the working directory may hold when a run starts.      *)

CSFull ==
    << Col("user_id", "TEXT"), Col("state_data", "BLOB"), Col("version", "INTEGER"),
       Col("created_at", "INTEGER"), Col("updated_at", "INTEGER") >>

CSBasic == SubSeq(CSFull, 1, 3)

CSNoVersion == SubSeq(CSFull, 1, 2)

IDFull ==
    << Col("type", "TEXT"), Col("user_id", "TEXT"), Col("timestamp", "INTEGER"),
       Col("details", "TEXT") >>

IDNoDetails == SubSeq(IDFull, 1, 3)

IDNoType == SubSeq(IDFull, 2, 4)

Table(n, cs, rs) == [name |-> n, cols |-> cs, rows |-> rs]

CSRows(k) == [i \in 1..k |-> [user_id |-> i, state_len |-> 1024 * (i - 1), version |-> i]]

IDRow(ty, u, ts, i) == [type |-> ty, user_id |-> u, timestamp |-> ts, details |-> i]

IDRows(k) == [i \in 1..k |-> IDRow(1 + (i % 2), 1 + (i % 2), 1000 * i + 999 * (i % 2), i)]

TableT == Table("t", <<Col("id", "INTEGER"), Col("name", "TEXT")>>, <<>>)

TableSpaced == Table("my table", <<Col("id", "INTEGER")>>, <<>>)

CSOptions ==
    {<<>>} \cup {<<Table("container_states", cs, CSRows(k))>> :
                    cs \in {CSFull, CSBasic, CSNoVersion}, k \in 0..MaxRows}

IDOptions ==
    {<<>>} \cup {<<Table("interaction_data", cs, IDRows(k))>> :
                    cs \in {IDFull, IDNoDetails, IDNoType}, k \in 0..MaxRows}

ExtraOptions ==
    {<<>>, <<TableT>>, <<TableSpaced>>, <<TableSpaced, TableT>>, <<TableT, TableSpaced>>}

\* Catalogs for the control flow: every combination of the two known tables
\* (absent, well formed, lacking a column; empty or not) and of other tables
\* before or after them.
SmallDBs ==
    {IF first THEN ex \o cs \o id ELSE cs \o id \o ex :
        cs \in CSOptions, id \in IDOptions, ex \in ExtraOptions, first \in BOOLEAN}

TsValues == {1000, 1999, 3000}

TsSeqs == UNION {[1..n -> TsValues] : n \in 0..MaxRecentRows}

\* Catalogs for the most-recent listing: every sequence of up to
\* MaxRecentRows timestamps, equal ones and ones within the same second
\* included.
RecentDBs ==
    {<< Table("container_states", CSFull, CSRows(1)),
        Table("interaction_data", IDFull,
              [i \in 1..Len(ts) |-> IDRow(1 + (i % 2), 1, ts[i], i)]) >> :
        ts \in TsSeqs}

RowsOfCounts(c) ==
    Flatten([ty \in 1..Len(c) |-> [j \in 1..c[ty] |-> IDRow(ty, 1, 1000 * j + ty, j)]])

\* The example of the specification: counts A:5, B:3, C:3, D:1.
ExampleCounts == <<5, 3, 3, 1>>

\* Counts per type: the first HeadTypes types have any count up to MaxCount,
\* then k further types have the same count.
TypeCounts ==
    {ExampleCounts} \cup
    {[ty \in 1..(HeadTypes + k) |-> IF ty <= HeadTypes THEN h[ty] ELSE tc] :
        h \in [1..HeadTypes -> 0..MaxCount], k \in 0..(NumTypes - HeadTypes),
        tc \in 1..2}

\* Catalogs for the interaction-types listing.
TypeDBs ==
    {<< Table("container_states", CSFull, <<>>),
        Table("interaction_data", IDFull, RowsOfCounts(c)) >> : c \in TypeCounts}

FaultsA == {"A1cat", "A1sel", "A2cat", "A2count", "A2types", "A2recent", "A3cat", "A3pragma"}

FaultsB == {"B_cat", "B_states", "B_preview", "B_group", "B_latest"}

InitFrom(DBs, injected) ==
    /\ script \in {"A", "B"}
    /\ fileExists \in BOOLEAN
    /\ created = FALSE
    /\ db \in (IF fileExists THEN DBs ELSE {<<>>})
    /\ fault \in {"none"} \cup
                 (IF ~injected THEN {} ELSE IF script = "A" THEN FaultsA ELSE FaultsB)
    /\ tieOrder \in TieOrders
    /\ pc = IF script = "A" THEN "a_pre" ELSE "b_connect"
    /\ conn = "none"
    /\ opens = 0
    /\ closes = 0
    /\ out = <<>>
    /\ raised = {}
    /\ exitCode = -1

Init == InitFrom(SmallDBs, TRUE)

InitRecent == InitFrom(RecentDBs, FALSE)

InitTypes == InitFrom(TypeDBs, FALSE)

Spec == Init /\ [][Next]_vars

SpecRecent == InitRecent /\ [][Next]_vars

SpecTypes == InitTypes /\ [][Next]_vars

-----------------------------------------------------------------------------
(* Reading a finished run.                                                 *)

Finished == pc = "done"

\* The database file was there when the run started.
Existed == fileExists /\ ~created

Has(sec, kind) == \E i \in 1..Len(out) : out[i].sec = sec /\ out[i].kind = kind

LinesOf(sec, kind) == SelectSeq(out, LAMBDA l : l.sec = sec /\ l.kind = kind)

\* Every part of the script's report was started: the three numbered sections
\* of script A; the table list and the two table sections of script B.
AllPartsPresent ==
    IF script = "A"
    THEN Has(1, "heading") /\ Has(2, "heading") /\ Has(3, "heading")
    ELSE Has(0, "tables") /\ Has(1, "heading") /\ Has(2, "heading")

KnownTables == {<<"container_states", 1, CSFull>>, <<"interaction_data", 2, IDFull>>}

-----------------------------------------------------------------------------
(* The claims.                                                             *)

\* C1 (as claimed, for both scripts): when the file exists and a known table
\* is absent from the catalog, the finished run has a "table not found" line
\* in that table's section, no error line there, and every part of the
\* report.
C1_MissingTableReported ==
    (Finished /\ Existed /\ fault = "none") =>
        \A kt \in KnownTables :
            ~HasTable(db, kt[1]) =>
                /\ Has(kt[2], "notfound")
                /\ ~Has(kt[2], "error")
                /\ AllPartsPresent

\* C1 restricted to script A, where it holds.
C1_ScriptA == script = "A" => C1_MissingTableReported

\* C2: in script A a failure inside section k is caught inside section k: the
\* finished run has the heading of each of the three sections, in order,
\* exactly one error line in each section that raised, placed last in that
\* section, none in the others, ends on the completion line and exits 0.
C2_SectionsFaultIsolated ==
    (script = "A" /\ Finished /\ Existed) =>
        /\ exitCode = 0
        /\ out # <<>>
        /\ out[Len(out)].kind = "complete"
        /\ \A i \in 1..(Len(out) - 1) : out[i].sec <= out[i + 1].sec
        /\ \A k \in 1..3 :
            /\ Len(LinesOf(k, "heading")) = 1
            /\ Len(LinesOf(k, "error")) = (IF k \in raised THEN 1 ELSE 0)
            /\ \A i \in 1..(Len(out) - 1) :
                   (out[i].sec = k /\ out[i].kind = "error") => out[i + 1].sec > k

\* C2's case: all three sections of one run of script A raised.
C2_Witness == script = "A" /\ Finished /\ raised = {1, 2, 3}

\* C3 (as claimed, for both scripts): when the file does not exist the run
\* opens no connection, prints nothing but the diagnostic and exits non-zero.
C3_MissingFileHalts ==
    (~fileExists \/ created) =>
        /\ opens = 0
        /\ \A i \in 1..Len(out) : out[i].kind = "diag"
        /\ Finished => (exitCode # 0 /\ Has(0, "diag"))

\* C3 restricted to script A, where it holds.
C3_ScriptA == script = "A" => C3_MissingFileHalts

\* C4 (as claimed, for both scripts): the connection is opened at most once,
\* a finished run has closed it as often as it opened it, and once it is
\* closed no statement is left to run.
C4_ConnectionClosedOnce ==
    /\ opens <= 1
    /\ closes <= opens
    /\ Finished => closes = opens
    /\ conn = "closed" => Finished

\* C4 restricted to script A, where it holds.
C4_ScriptA == script = "A" => C4_ConnectionClosedOnce

\* C5 (as claimed, for both scripts): no step of a run changes whether the
\* database file exists or what it holds.
C5_ReadOnly == [][fileExists' = fileExists /\ db' = db]_vars

\* C5 restricted to script A, where it holds.
C5_ScriptA == [][script = "A" => (fileExists' = fileExists /\ db' = db)]_vars

\* C6 (as claimed, for both scripts): with an existing file the run exits 0
\* and its output holds the header and the schema-dump section.
C6_ExistingFileReport ==
    (Finished /\ Existed /\ fault = "none") =>
        /\ exitCode = 0
        /\ out # <<>>
        /\ Has(0, "header")
        /\ Has(3, "heading")

\* C6 restricted to script A, where it holds.
C6_ScriptA == script = "A" => C6_ExistingFileReport

\* The interaction_data section of the finished run was reached and left
\* without an exception.
InteractionSectionRan ==
    /\ Finished
    /\ Existed
    /\ HasTable(db, "interaction_data")
    /\ Has(2, "heading")
    /\ 2 \notin raised

InteractionRows == TableOf(db, "interaction_data").rows

\* The entries of the most-recent listing, as printed.
RecentEntries ==
    IF script = "A" THEN LinesOf(2, "recent_entry") ELSE LinesOf(2, "latest_entry")

\* What the script prints of a row in that listing.
RecentProjection(r) ==
    IF script = "A"
    THEN <<r.type, r.user_id, FormattedTime(r.timestamp)>>
    ELSE <<r.type, r.details, r.timestamp>>

\* idx names the rows behind the entries of the listing: distinct rows, one
\* per entry, at most min(5, n) of them, in non-increasing order of
\* timestamp, and no row left out is newer than a row listed.
IsMostRecent(rows, entries, idx) ==
    /\ Len(entries) = Len(idx)
    /\ Len(idx) <= Min(5, Len(rows))
    /\ \A k \in 1..Len(idx) :
        /\ idx[k] \in 1..Len(rows)
        /\ entries[k].val = RecentProjection(rows[idx[k]])
    /\ \A k, m \in 1..Len(idx) : k # m => idx[k] # idx[m]
    /\ \A k \in 1..(Len(idx) - 1) :
           rows[idx[k]].timestamp >= rows[idx[k + 1]].timestamp
    /\ \A j \in 1..Len(rows) :
           (\A k \in 1..Len(idx) : idx[k] # j) =>
               \A k \in 1..Len(idx) : rows[j].timestamp <= rows[idx[k]].timestamp

\* C7: in both scripts, when the interaction_data section ran without a
\* failure over n rows, the most-recent listing has at most min(5, n)
\* entries, in non-increasing order of timestamp, and no row left out has a
\* timestamp greater than a listed row's.
C7_MostRecentListing ==
    InteractionSectionRan =>
        IsMostRecent(InteractionRows, RecentEntries,
                     IF script = "A" THEN RecentIdx(InteractionRows, tieOrder)
                     ELSE LatestIdx(InteractionRows, tieOrder))

\* C7's case: more than five rows, five listed, and a row left out that is
\* as recent as the oldest row listed (script A; C7_WitnessB is script B's).
C7_Witness ==
    /\ script = "A"
    /\ InteractionSectionRan
    /\ Len(InteractionRows) > 5
    /\ Len(RecentEntries) = 5
    /\ \E j \in 1..Len(InteractionRows) :
        /\ j \notin {RecentIdx(InteractionRows, tieOrder)[k] : k \in 1..5}
        /\ FormattedTime(InteractionRows[j].timestamp) = RecentEntries[5].val[3]
    /\ RecentEntries[1].val[3] > RecentEntries[5].val[3]

C7_WitnessB ==
    /\ script = "B"
    /\ InteractionSectionRan
    /\ Len(InteractionRows) > 5
    /\ Len(RecentEntries) = 5
    /\ RecentEntries[1].val[3] > RecentEntries[5].val[3]

\* The number of rows of a type, counted row by row.
RECURSIVE RowsOfType(_, _)
RowsOfType(rows, ty) ==
    IF rows = <<>> THEN 0
    ELSE (IF Head(rows).type = ty THEN 1 ELSE 0) + RowsOfType(Tail(rows), ty)

TypeEntries == LinesOf(2, "type_entry")

RowTypes(rows) == {rows[i].type : i \in 1..Len(rows)}

\* C8: in script A the interaction-types listing has at most 10 entries (10
\* when more types exist), one per type, each with the number of rows of its
\* type, in non-increasing order of count, and no type left out has a count
\* greater than a listed type's; with counts A:5, B:3, C:3, D:1 it lists A
\* first and B and C before D.
C8_TopTypesListing ==
    (script = "A" /\ InteractionSectionRan) =>
        LET rows == InteractionRows
            e    == TypeEntries
            listed == {e[k].val[1] : k \in 1..Len(e)}
        IN  /\ Len(e) = Min(10, Cardinality(RowTypes(rows)))
            /\ listed \subseteq RowTypes(rows)
            /\ \A k, m \in 1..Len(e) : k # m => e[k].val[1] # e[m].val[1]
            /\ \A k \in 1..Len(e) : e[k].val[2] = RowsOfType(rows, e[k].val[1])
            /\ \A k \in 1..(Len(e) - 1) : e[k].val[2] >= e[k + 1].val[2]
            /\ \A ty \in RowTypes(rows) \ listed :
                   \A k \in 1..Len(e) : RowsOfType(rows, ty) <= e[k].val[2]
            /\ rows = RowsOfCounts(ExampleCounts) =>
                   /\ e[1].val[1] = 1
                   /\ {e[2].val[1], e[3].val[1]} = {2, 3}
                   /\ e[4].val[1] = 4

\* C8's case: more than 10 distinct types, 10 listed, with a tie among the
\* listed counts and a strict drop.
C8_Witness ==
    /\ script = "A"
    /\ InteractionSectionRan
    /\ Cardinality(RowTypes(InteractionRows)) > 10
    /\ Len(TypeEntries) = 10
    /\ TypeEntries[1].val[2] > TypeEntries[2].val[2]
    /\ TypeEntries[9].val[2] = TypeEntries[10].val[2]

\* The lines a complete schema dump holds: each table's entry, then one line
\* per column, name and declared type, in declaration order.
ExpectedDump(d) ==
    Flatten([i \in 1..Len(d) |->
        <<Line(3, "table_entry", <<d[i].name>>)>>
        \o [k \in 1..Len(d[i].cols) |->
               Line(3, "column", <<d[i].cols[k].name, d[i].cols[k].type>>)]])

SchemaLines ==
    SelectSeq(out, LAMBDA l : l.sec = 3 /\ l.kind \in {"table_entry", "column"})

\* C9 (as claimed): in script A, whatever the names of the catalog's tables,
\* the schema dump holds every table's entry followed by one line per column.
C9_SchemaDumpComplete ==
    (script = "A" /\ Finished /\ Existed /\ fault = "none") =>
        SchemaLines = ExpectedDump(db)

\* C9 for catalogs whose table names read as one identifier, where it holds.
C9_PlainNames ==
    (\A i \in 1..Len(db) : db[i].name \notin NeedsQuoting) => C9_SchemaDumpComplete

\* A line that says the table holds nothing: "No ... found", or the total
\* of 0 that script A prints for interaction_data.
SaysNoData(sec) ==
    \/ Has(sec, "nodata")
    \/ \E i \in 1..Len(out) :
           out[i].sec = sec /\ out[i].kind = "total" /\ out[i].val = <<0>>

\* C10 (as claimed, for both scripts): when a known table exists with its
\* expected columns and no rows, its section has a "no data" line, no error
\* line and no "table not found" line, and every part of the report is there.
C10_EmptyTableNoData ==
    (Finished /\ Existed /\ fault = "none") =>
        \A kt \in KnownTables :
            (/\ HasTable(db, kt[1])
             /\ TableOf(db, kt[1]).cols = kt[3]
             /\ TableOf(db, kt[1]).rows = <<>>) =>
                /\ SaysNoData(kt[2])
                /\ ~Has(kt[2], "error")
                /\ ~Has(kt[2], "notfound")
                /\ AllPartsPresent

\* C10 restricted to script A, where it holds.
C10_ScriptA == script = "A" => C10_EmptyTableNoData

====
